---- MODULE Spec2Model ----
(***************************************************************************)
(* The shopping_cart application: the relational store (models.py), the    *)
(* REST handlers over it (views.py) and the customer provisioning signal   *)
(* (signals/handlers.py).  Each request is a process; a handler that       *)
(* issues several database statements is one action per statement, so that *)
(* requests served by different workers interleave between statements.     *)
(* serializers.py is not among the sources: the serializers' save() and    *)
(* validate methods are modelled from the written specification.           *)
(***************************************************************************)
EXTENDS Integers, FiniteSets, TLC

\* ---------------------------------------------------------------- bounds
MaxProducts == 2
MaxCollections == 2
MaxUsers == 2
MaxCarts == 2
MaxQty == 2
MaxPrice == 2
MaxOrders == 2
MaxItemIds == 3
NPlace == 2
NAdd == 2
NDel == 1

\* models.py: MinValueValidator(1) on CartItem.quantity and Product.unit_price
MinQuantity == 1
MinUnitPrice == 1

ProductIds == 1..MaxProducts
CollectionIds == 1..MaxCollections
UserIds == 1..MaxUsers
CartIds == 1..MaxCarts
\* The prices a request sets: the lowest valid one and a higher one
Prices == {MinUnitPrice, MaxPrice}
PlaceProcs == 1..NPlace
AddProcs == 1..NAdd
DelProcs == 1..NDel

MEMBERSHIP_BRONZE == "B"
MEMBERSHIP_SILVER == "S"
MEMBERSHIP_GOLD == "G"
PAYMENT_STATUS_PENDING == "P"
PAYMENT_STATUS_COMPLETE == "C"
PAYMENT_STATUS_FAILED == "F"
PaymentStatuses == {PAYMENT_STATUS_PENDING, PAYMENT_STATUS_COMPLETE,
                    PAYMENT_STATUS_FAILED}
\* request.user: an identity, or 0 for AnonymousUser
Callers == 0..MaxUsers

VARIABLES
  collections,   \* Collection rows: the ids that exist
  products,      \* Product rows: id -> [collection, unit_price]
  carts,         \* Cart rows: the ids that exist
  cartItems,     \* CartItem rows [id, cart, product, quantity]
  users,         \* identity rows: id -> [is_staff]
  customers,     \* Customer rows [id, user, membership]
  orders,        \* Order rows [id, customer, payment_status]
  orderItems,    \* OrderItem rows [order, product, quantity, unit_price]
  nextCartId,    \* uuid4: a cart id is never issued twice
  nextItemId,    \* CartItem primary key sequence
  nextOrderId,   \* Order primary key sequence
  nextCustomerId,\* Customer primary key sequence
  cartLock,      \* cart id -> the placement holding the Cart row, or 0
  place,         \* order placement requests (POST /orders/)
  adds,          \* add-to-cart requests (POST /carts/{id}/items/)
  pdel,          \* product delete requests (DELETE /products/{id}/)
  cdel,          \* collection delete requests (DELETE /collections/{id}/)
  resp           \* the last answer of a single-statement request that is
                 \* worth keeping: a refusal, or the orders shown to a caller

store == <<collections, products, carts, cartItems, users, customers,
           orders, orderItems>>
seqs == <<nextCartId, nextItemId, nextOrderId, nextCustomerId>>
procs == <<place, adds, pdel, cdel>>
vars == <<collections, products, carts, cartItems, users, customers,
          orders, orderItems, nextCartId, nextItemId, nextOrderId,
          nextCustomerId, cartLock, place, adds, pdel, cdel, resp>>


\* ------------------------------------------------------- models.py helpers
NoResp == [op |-> "none", status |-> 0, caller |-> 0, rows |-> {}]
Resp(op, status) == [op |-> op, status |-> status, caller |-> 0, rows |-> {}]
\* The answer to caller u of a request on the Order resource that ended
\* without showing anything
Answer(op, status, u) == [op |-> op, status |-> status, caller |-> u, rows |-> {}]
\* The answer to caller u of a request that the permissions did not let
\* through (401 instead when the authentication scheme sends a challenge)
Denied(op, u) == Answer(op, 403, u)
\* The answer to caller u of a request that shows Order rows (their ids)
Shown(op, u, rows) ==
  [op |-> op, status |-> 200, caller |-> u, rows |-> {x.id : x \in rows}]

\* CartItem rows of a cart (related_name='items')
Lines(c) == {ci \in cartItems : ci.cart = c}

\* A quantity validator that lets zero through
QuantityValidFromZero(q) == q >= 0

\* MinValueValidator(1) on CartItem.quantity
QuantityValid(q) == q >= MinQuantity

\* MinValueValidator(1) on Product.unit_price
UnitPriceValid(v) == v >= MinUnitPrice

\* A CartItem table without the unique constraint
UniqueTogetherAbsent(c, p) == TRUE

\* unique_together = [['cart', 'product']]: may a row for (c, p) be inserted
UniqueTogether(c, p) == ~ \E ci \in cartItems : ci.cart = c /\ ci.product = p

\* A cart deletion that leaves the cart's items behind
CascadeCartNone(c) == cartItems

\* CartItem.cart on_delete=CASCADE: the rows left when cart c is deleted
CascadeCart(c) == {ci \in cartItems : ci.cart # c}

\* A product deletion that leaves the product's cart lines behind
CascadeProductNone(p) == cartItems

\* CartItem.product on_delete=CASCADE: the rows left when product p is deleted
CascadeProduct(p) == {ci \in cartItems : ci.product # p}

\* OrderItem.product on_delete=PROTECT
ProductProtected(p) == \E oi \in orderItems : oi.product = p

\* Product.collection on_delete=PROTECT
CollectionProtected(c) == \E p \in DOMAIN products : products[p].collection = c

\* Order.customer on_delete=PROTECT
CustomerProtected(cu) == \E o \in orders : o.customer = cu

\* An OrderItem.order that protects nothing
OrderProtectedNever(o) == FALSE

\* OrderItem.order on_delete=PROTECT
OrderProtected(o) == \E oi \in orderItems : oi.order = o

\* Customer.user is a OneToOneField: the Customer rows of identity u
CustomersOf(u) == {cu \in customers : cu.user = u}

\* ------------------------------------------------------------ request state
IdlePlace == [pc |-> "idle", user |-> 0, cart |-> 0, customer |-> 0,
              order |-> 0, lines |-> {}, items |-> {}, res |-> "none",
              at |-> "none", made |-> 0]
IdleAdd == [pc |-> "idle", cart |-> 0, product |-> 0, quantity |-> 0,
            found |-> 0, q0 |-> 0, res |-> "none"]
IdleDel == [pc |-> "idle", id |-> 0, res |-> "none"]

\* ------------------------------------------------------------------- carts
\* CartViewSet (CreateModelMixin): POST /carts/ makes a cart with a fresh uuid4
CreateCart ==
  /\ nextCartId <= MaxCarts
  /\ carts' = carts \cup {nextCartId}
  /\ nextCartId' = nextCartId + 1
  /\ resp' = resp
  /\ UNCHANGED <<collections, products, cartItems, users, customers, orders,
                 orderItems, nextItemId, nextOrderId, nextCustomerId,
                 cartLock, procs>>

\* CartViewSet (DestroyModelMixin): DELETE /carts/{id}/ removes the cart and,
\* by cascade, its items; it waits for a placement that holds the Cart row
DeleteCart(c) ==
  /\ c \in carts
  /\ cartLock[c] = 0
  /\ carts' = carts \ {c}
  /\ cartItems' = CascadeCart(c)
  /\ resp' = resp
  /\ UNCHANGED <<collections, products, users, customers, orders, orderItems,
                 seqs, cartLock, procs>>

\* The request a has ended with outcome res
AddDone(a, res) == [adds EXCEPT ![a] = [IdleAdd EXCEPT !.pc = "done", !.res = res]]

\* AddCartItemSerializer, first statement: validate the body, then look the
\* line for (cart, product) up; the cart id in the URL is one that was issued
AddLookup(a, c, p, q) ==
  /\ adds[a].pc = "idle"
  /\ \A b \in AddProcs : b < a => adds[b].pc # "idle"
  /\ c < nextCartId
  /\ LET found == {ci \in cartItems : ci.cart = c /\ ci.product = p}
         row == CHOOSE ci \in found : TRUE
     IN IF ~ QuantityValid(q) \/ p \notin DOMAIN products
        THEN adds' = AddDone(a, "invalid")
        ELSE /\ found # {} => row.quantity + q <= MaxQty
             /\ adds' = [adds EXCEPT ![a] =
                  [pc |-> "found", cart |-> c, product |-> p, quantity |-> q,
                   found |-> IF found = {} THEN 0 ELSE row.id,
                   q0 |-> IF found = {} THEN 0 ELSE row.quantity,
                   res |-> "none"]]
  /\ UNCHANGED <<store, seqs, cartLock, place, pdel, cdel, resp>>

\* AddCartItemSerializer, second statement: add to the quantity read when the
\* line was found, otherwise insert a new line (the insert is subject to the
\* foreign keys and to unique_together)
AddWrite(a) ==
  /\ adds[a].pc = "found"
  /\ LET r == adds[a]
         old == {ci \in cartItems : ci.id = r.found}
     IN IF r.found # 0
        THEN IF old = {}
             THEN /\ adds' = AddDone(a, "error")
                  /\ UNCHANGED <<cartItems, nextItemId>>
             ELSE /\ cartItems' = (cartItems \ old) \cup
                       {[ci EXCEPT !.quantity = r.q0 + r.quantity] : ci \in old}
                  /\ adds' = AddDone(a, "merged")
                  /\ UNCHANGED nextItemId
        ELSE IF /\ r.cart \in carts
                /\ r.product \in DOMAIN products
                /\ UniqueTogether(r.cart, r.product)
             THEN /\ nextItemId <= MaxItemIds
                  /\ cartItems' = cartItems \cup
                       {[id |-> nextItemId, cart |-> r.cart,
                         product |-> r.product, quantity |-> r.quantity]}
                  /\ nextItemId' = nextItemId + 1
                  /\ adds' = AddDone(a, "inserted")
             ELSE /\ adds' = AddDone(a, "error")
                  /\ UNCHANGED <<cartItems, nextItemId>>
  /\ UNCHANGED <<collections, products, carts, users, customers, orders,
                 orderItems, nextCartId, nextOrderId, nextCustomerId,
                 cartLock, place, pdel, cdel, resp>>

\* CartItemViewSet PATCH with UpdateCartItemSerializer: set a line's quantity
UpdateCartItem(i, q) ==
  /\ \E ci \in cartItems : ci.id = i
  /\ IF QuantityValid(q)
     THEN /\ cartItems' = {IF ci.id = i THEN [ci EXCEPT !.quantity = q] ELSE ci
                           : ci \in cartItems}
          /\ resp' = resp
     ELSE /\ cartItems' = cartItems
          /\ resp' = Resp("patch_item", 400)
  /\ UNCHANGED <<collections, products, carts, users, customers, orders,
                 orderItems, seqs, cartLock, procs>>

\* CartItemViewSet DELETE: remove one line
DeleteCartItem(i) ==
  /\ \E ci \in cartItems : ci.id = i
  /\ cartItems' = {ci \in cartItems : ci.id # i}
  /\ resp' = resp
  /\ UNCHANGED <<collections, products, carts, users, customers, orders,
                 orderItems, seqs, cartLock, procs>>


\* ----------------------------------------------------------------- catalog
\* A product update that also reprices the OrderItems of the product
UpdateProductRepricing(p, c, v) ==
  /\ p \in DOMAIN products
  /\ UnitPriceValid(v) /\ c \in collections
  /\ products' = [products EXCEPT ![p] = [collection |-> c, unit_price |-> v]]
  /\ orderItems' = {IF oi.product = p THEN [oi EXCEPT !.unit_price = v] ELSE oi
                    : oi \in orderItems}
  /\ resp' = resp
  /\ UNCHANGED <<collections, carts, cartItems, users, customers, orders,
                 seqs, cartLock, procs>>

\* ProductViewSet (ModelViewSet) PUT: the Product row is written, and nothing
\* else; the collection must exist and the price be valid
UpdateProduct(p, c, v) ==
  /\ p \in DOMAIN products
  /\ IF UnitPriceValid(v) /\ c \in collections
     THEN /\ products' = [products EXCEPT
                            ![p] = [collection |-> c, unit_price |-> v]]
          /\ resp' = resp
     ELSE /\ products' = products
          /\ resp' = Resp("put_product", 400)
  /\ UNCHANGED <<collections, carts, cartItems, users, customers, orders,
                 orderItems, seqs, cartLock, procs>>

\* The Product rows without product p
WithoutProduct(p) == [x \in (DOMAIN products) \ {p} |-> products[x]]

\* ProductViewSet.destroy, first statement: count the OrderItems of the
\* product; any at all ends the request with 405
ProductDestroyCheck(d, p) ==
  /\ pdel[d].pc = "idle"
  /\ \A e \in DelProcs : e < d => pdel[e].pc # "idle"
  /\ pdel' = [pdel EXCEPT ![d] =
       IF Cardinality({oi \in orderItems : oi.product = p}) > 0
       THEN [IdleDel EXCEPT !.pc = "done", !.res = "405"]
       ELSE [pc |-> "checked", id |-> p, res |-> "none"]]
  /\ UNCHANGED <<store, seqs, cartLock, place, adds, cdel, resp>>

\* ProductViewSet.destroy, super().destroy(): 404 without the row; delete()
\* raises ProtectedError, which no handler catches (500), when an OrderItem
\* references the product; otherwise the product goes, and with it its
\* CartItems
ProductDestroyDelete(d) ==
  /\ pdel[d].pc = "checked"
  /\ LET p == pdel[d].id
     IN IF p \notin DOMAIN products
        THEN /\ pdel' = [pdel EXCEPT ![d] = [IdleDel EXCEPT !.pc = "done", !.res = "404"]]
             /\ UNCHANGED <<products, cartItems>>
        ELSE IF ProductProtected(p)
        THEN /\ pdel' = [pdel EXCEPT ![d] = [IdleDel EXCEPT !.pc = "done", !.res = "500"]]
             /\ UNCHANGED <<products, cartItems>>
        ELSE /\ pdel' = [pdel EXCEPT ![d] = [IdleDel EXCEPT !.pc = "done", !.res = "204"]]
             /\ products' = WithoutProduct(p)
             /\ cartItems' = CascadeProduct(p)
  /\ UNCHANGED <<collections, carts, users, customers, orders, orderItems,
                 seqs, cartLock, place, adds, cdel, resp>>

\* A destroy() of CollectionViewSet that is not overridden: no check
CollectionDestroyUnchecked(d, c) ==
  /\ cdel[d].pc = "idle"
  /\ \A e \in DelProcs : e < d => cdel[e].pc # "idle"
  /\ cdel' = [cdel EXCEPT ![d] = [pc |-> "checked", id |-> c, res |-> "none"]]
  /\ UNCHANGED <<store, seqs, cartLock, place, adds, pdel, resp>>

\* CollectionViewSet.destroy, first statement: look for Products of the
\* collection; any at all ends the request with 405
CollectionDestroyCheck(d, c) ==
  /\ cdel[d].pc = "idle"
  /\ \A e \in DelProcs : e < d => cdel[e].pc # "idle"
  /\ cdel' = [cdel EXCEPT ![d] =
       IF {p \in DOMAIN products : products[p].collection = c} # {}
       THEN [IdleDel EXCEPT !.pc = "done", !.res = "405"]
       ELSE [pc |-> "checked", id |-> c, res |-> "none"]]
  /\ UNCHANGED <<store, seqs, cartLock, place, adds, pdel, resp>>

\* CollectionViewSet.destroy, super().destroy(): 404 without the row; delete()
\* raises ProtectedError (500) when a Product references the collection
CollectionDestroyDelete(d) ==
  /\ cdel[d].pc = "checked"
  /\ LET c == cdel[d].id
     IN IF c \notin collections
        THEN /\ cdel' = [cdel EXCEPT ![d] = [IdleDel EXCEPT !.pc = "done", !.res = "404"]]
             /\ UNCHANGED collections
        ELSE IF CollectionProtected(c)
        THEN /\ cdel' = [cdel EXCEPT ![d] = [IdleDel EXCEPT !.pc = "done", !.res = "500"]]
             /\ UNCHANGED collections
        ELSE /\ cdel' = [cdel EXCEPT ![d] = [IdleDel EXCEPT !.pc = "done", !.res = "204"]]
             /\ collections' = collections \ {c}
  /\ UNCHANGED <<products, carts, cartItems, users, customers, orders,
                 orderItems, seqs, cartLock, place, adds, pdel, resp>>

\* --------------------------------------------------------------- customers
\* A handler that creates the Customer on updates instead of on creation
create_customer_when_not_created(created, u) ==
  IF ~ created
  THEN customers \cup {[id |-> nextCustomerId, user |-> u,
                        membership |-> MEMBERSHIP_BRONZE]}
  ELSE customers

\* signals/handlers.py: on post_save of an identity, create its Customer when
\* the identity was created (membership takes its default)
create_customer_for_new_user(created, u) ==
  IF created
  THEN customers \cup {[id |-> nextCustomerId, user |-> u,
                        membership |-> MEMBERSHIP_BRONZE]}
  ELSE customers

\* An identity is saved: created with the next id, or updated; post_save
\* runs the handler
SaveUser(u, staff) ==
  /\ u \in UserIds
  /\ u \notin DOMAIN users => u = Cardinality(DOMAIN users) + 1
  /\ users' = [x \in (DOMAIN users) \cup {u} |->
                 IF x = u THEN [is_staff |-> staff] ELSE users[x]]
  /\ customers' = create_customer_for_new_user(u \notin DOMAIN users, u)
  /\ nextCustomerId' = nextCustomerId + Cardinality(customers' \ customers)
  /\ UNCHANGED <<collections, products, carts, cartItems, orders, orderItems,
                 nextCartId, nextItemId, nextOrderId, cartLock, procs, resp>>

\* CustomerViewSet.me: Customer.objects.get(user_id=...) raises, unhandled
\* (500), unless the caller has exactly one Customer; PUT updates it
Me(u, method, m) ==
  /\ u \in DOMAIN users
  /\ IF Cardinality(CustomersOf(u)) # 1
     THEN /\ resp' = Resp("me", 500)
          /\ customers' = customers
     ELSE /\ resp' = resp
          /\ customers' = IF method = "PUT"
                          THEN {IF cu.user = u THEN [cu EXCEPT !.membership = m]
                                ELSE cu : cu \in customers}
                          ELSE customers
  /\ UNCHANGED <<collections, products, carts, cartItems, users, orders,
                 orderItems, seqs, cartLock, procs>>

\* CustomerViewSet (ModelViewSet, IsAdminUser) DELETE /customers/{id}/ by the
\* staff caller s: the row goes unless an Order protects it
DeleteCustomer(s, id) ==
  /\ s \in DOMAIN users /\ users[s].is_staff
  /\ \E cu \in customers : cu.id = id
  /\ IF CustomerProtected(id)
     THEN /\ customers' = customers
          /\ resp' = Resp("delete_customer", 500)
     ELSE /\ customers' = {cu \in customers : cu.id # id}
          /\ resp' = resp
  /\ UNCHANGED <<collections, products, carts, cartItems, users, orders,
                 orderItems, seqs, cartLock, procs>>

\* ------------------------------------------------------------------ orders
\* rest_framework.permissions.IsAuthenticated
IsAuthenticated(u) == u \in DOMAIN users

\* rest_framework.permissions.IsAdminUser
IsAdminUser(u) == u \in DOMAIN users /\ users[u].is_staff

\* A get_permissions that asks for an authenticated caller whatever the method
get_permissions_authenticated(method, u) == IsAuthenticated(u)

\* OrderViewSet.get_permissions: is caller u let through for this method
get_permissions(method, u) ==
  IF method \in {"PATCH", "DELETE"} THEN IsAdminUser(u) ELSE IsAuthenticated(u)

\* A get_queryset that returns every Order to every caller
get_queryset_all(u) == orders

\* OrderViewSet.get_queryset raises (Customer.objects.get finds no row, or
\* several): the request ends with 500
get_queryset_raises(u) == ~ users[u].is_staff /\ Cardinality(CustomersOf(u)) # 1

\* OrderViewSet.get_queryset: every Order for staff, otherwise the Orders of
\* the caller's Customer
get_queryset(u) ==
  IF users[u].is_staff
  THEN orders
  ELSE {o \in orders : \E cu \in CustomersOf(u) : o.customer = cu.id}

\* GET /orders/ by caller u
ListOrders(u) ==
  /\ resp' = IF ~ get_permissions("GET", u) THEN Denied("list_orders", u)
             ELSE IF get_queryset_raises(u) THEN Answer("list_orders", 500, u)
             ELSE Shown("list_orders", u, get_queryset(u))
  /\ UNCHANGED <<store, seqs, cartLock, procs>>

\* GET /orders/{o}/ by caller u: get_object() looks in get_queryset()
RetrieveOrder(u, o) ==
  /\ resp' = IF ~ get_permissions("GET", u) THEN Denied("retrieve_order", u)
             ELSE IF get_queryset_raises(u) THEN Answer("retrieve_order", 500, u)
             ELSE IF ~ \E x \in get_queryset(u) : x.id = o
                  THEN Answer("retrieve_order", 404, u)
             ELSE Shown("retrieve_order", u, {x \in get_queryset(u) : x.id = o})
  /\ UNCHANGED <<store, seqs, cartLock, procs>>

\* PATCH /orders/{o}/ by caller u: the payment status is set
PatchOrder(u, o, s) ==
  /\ IF ~ get_permissions("PATCH", u)
     THEN /\ resp' = Denied("patch_order", u)
          /\ orders' = orders
     ELSE IF get_queryset_raises(u)
     THEN /\ resp' = Answer("patch_order", 500, u)
          /\ orders' = orders
     ELSE IF ~ \E x \in get_queryset(u) : x.id = o
     THEN /\ resp' = Answer("patch_order", 404, u)
          /\ orders' = orders
     ELSE /\ resp' = Answer("patch_order", 200, u)
          /\ orders' = {IF x.id = o THEN [x EXCEPT !.payment_status = s] ELSE x
                        : x \in orders}
  /\ UNCHANGED <<collections, products, carts, cartItems, users, customers,
                 orderItems, seqs, cartLock, procs>>

\* DELETE /orders/{o}/ by caller u: delete() raises ProtectedError, which no
\* handler catches (500), while an OrderItem references the order
DeleteOrder(u, o) ==
  /\ IF ~ get_permissions("DELETE", u)
     THEN /\ resp' = Denied("delete_order", u)
          /\ orders' = orders
     ELSE IF get_queryset_raises(u)
     THEN /\ resp' = Answer("delete_order", 500, u)
          /\ orders' = orders
     ELSE IF ~ \E x \in get_queryset(u) : x.id = o
     THEN /\ resp' = Answer("delete_order", 404, u)
          /\ orders' = orders
     ELSE IF OrderProtected(o)
     THEN /\ resp' = Answer("delete_order", 500, u)
          /\ orders' = orders
     ELSE /\ resp' = Answer("delete_order", 204, u)
          /\ orders' = {x \in orders : x.id # o}
  /\ UNCHANGED <<collections, products, carts, cartItems, users, customers,
                 orderItems, seqs, cartLock, procs>>

\* --------------------------------------------------------- order placement
\* CreateOrderSerializer.validate_cart_id: the cart exists and has a line
CartIdValid(c) == c \in carts /\ Lines(c) # {}

\* The cart's lines with each product's current unit price, as one query
CartSnapshot(c) ==
  {[product |-> ci.product, quantity |-> ci.quantity,
    unit_price |-> products[ci.product].unit_price] : ci \in Lines(c)}

\* The OrderItem row made from one line of the snapshot
OrderItemOf(o, l) ==
  [order |-> o, product |-> l.product, quantity |-> l.quantity,
   unit_price |-> l.unit_price]

Released(c) == [cartLock EXCEPT ![c] = 0]

\* What a rolled back transaction leaves of the request: its writes are gone
\* (made: the OrderItems it had created)
RolledBack(r, res) ==
  [r EXCEPT !.pc = "done", !.res = res, !.lines = {}, !.items = {},
            !.user = 0, !.customer = 0, !.made = Cardinality(r.items)]

\* A create() that calls save() whatever is_valid() found
PlaceValidateNoRaise(p, u, c) ==
  /\ place[p].pc = "idle"
  /\ \A q \in PlaceProcs : q < p => place[q].pc # "idle"
  /\ c <= nextCartId
  /\ u = 0 \/ u \in DOMAIN users
  /\ place' = [place EXCEPT ![p] =
       IF ~ get_permissions("POST", u)
       THEN [IdlePlace EXCEPT !.pc = "done", !.res = "denied"]
       ELSE [IdlePlace EXCEPT !.pc = "valid", !.user = u, !.cart = c]]
  /\ UNCHANGED <<store, seqs, cartLock, adds, pdel, cdel, resp>>

\* OrderViewSet.create up to is_valid(raise_exception=True): a caller who is
\* not authenticated is denied before create() runs, and an invalid cart id
\* ends the request with 400 before save() is called
PlaceValidate(p, u, c) ==
  /\ place[p].pc = "idle"
  /\ \A q \in PlaceProcs : q < p => place[q].pc # "idle"
  /\ c <= nextCartId
  /\ u = 0 \/ u \in DOMAIN users
  /\ place' = [place EXCEPT ![p] =
       IF ~ get_permissions("POST", u)
       THEN [IdlePlace EXCEPT !.pc = "done", !.res = "denied"]
       ELSE IF CartIdValid(c)
       THEN [IdlePlace EXCEPT !.pc = "valid", !.user = u, !.cart = c]
       ELSE [IdlePlace EXCEPT !.pc = "done", !.cart = c, !.res = "invalid",
                              !.at = IF c \in carts THEN "empty" ELSE "missing"]]
  /\ UNCHANGED <<store, seqs, cartLock, adds, pdel, cdel, resp>>

\* A save() that neither takes the Cart row nor looks whether it is there
PlaceBeginUnlocked(p) ==
  /\ place[p].pc = "valid"
  /\ place' = [place EXCEPT ![p].pc = "locked"]
  /\ UNCHANGED <<store, seqs, cartLock, adds, pdel, cdel, resp>>

\* save(), opening the transaction: take the Cart row; a request whose cart
\* is held by another placement waits, and finds the cart gone afterwards
PlaceBegin(p) ==
  /\ place[p].pc = "valid"
  /\ LET c == place[p].cart
     IN /\ cartLock[c] = 0
        /\ IF c \in carts
           THEN /\ cartLock' = [cartLock EXCEPT ![c] = p]
                /\ place' = [place EXCEPT ![p].pc = "locked"]
           ELSE /\ cartLock' = cartLock
                /\ place' = [place EXCEPT ![p].pc = "done", ![p].user = 0,
                                          ![p].res = "NotFound"]
  /\ UNCHANGED <<store, seqs, adds, pdel, cdel, resp>>

\* save(): read the cart's lines; an empty cart is rejected
PlaceReadCart(p) ==
  /\ place[p].pc = "locked"
  /\ LET c == place[p].cart
     IN IF Lines(c) = {}
        THEN /\ place' = [place EXCEPT ![p] = RolledBack(@, "Empty")]
             /\ cartLock' = Released(c)
        ELSE /\ place' = [place EXCEPT ![p].pc = "read",
                                       ![p].lines = CartSnapshot(c)]
             /\ cartLock' = cartLock
  /\ UNCHANGED <<store, seqs, adds, pdel, cdel, resp>>

\* save(): resolve the caller's Customer and create the Order header
PlaceCreateOrder(p) ==
  /\ place[p].pc = "read"
  /\ LET found == CustomersOf(place[p].user)
     IN IF Cardinality(found) = 1
        THEN /\ nextOrderId <= MaxOrders
             /\ place' = [place EXCEPT
                  ![p].pc = "header",
                  ![p].customer = (CHOOSE cu \in found : TRUE).id,
                  ![p].order = nextOrderId]
             /\ nextOrderId' = nextOrderId + 1
             /\ cartLock' = cartLock
        ELSE /\ place' = [place EXCEPT ![p] = RolledBack(@, "NoCustomer")]
             /\ cartLock' = Released(place[p].cart)
             /\ nextOrderId' = nextOrderId
  /\ UNCHANGED <<store, nextCartId, nextItemId, nextCustomerId, adds, pdel,
                 cdel, resp>>

\* save(): create the OrderItem of the next line of the snapshot, in the
\* order of the query's rows
PlaceCreateItem(p, l) ==
  /\ place[p].pc = "header"
  /\ l \in place[p].lines
  /\ OrderItemOf(place[p].order, l) \notin place[p].items
  /\ \A k \in place[p].lines :
       k.product < l.product => OrderItemOf(place[p].order, k) \in place[p].items
  /\ place' = [place EXCEPT
       ![p].items = @ \cup {OrderItemOf(place[p].order, l)}]
  /\ UNCHANGED <<store, seqs, cartLock, adds, pdel, cdel, resp>>

\* save(): delete the source cart, once every line has its OrderItem
PlaceDeleteCart(p) ==
  /\ place[p].pc = "header"
  /\ \A l \in place[p].lines : OrderItemOf(place[p].order, l) \in place[p].items
  /\ place' = [place EXCEPT ![p].pc = "deleted"]
  /\ UNCHANGED <<store, seqs, cartLock, adds, pdel, cdel, resp>>

\* The rows a placement's foreign keys point to exist when it commits
PlaceForeignKeysHold(r) ==
  /\ \E cu \in customers : cu.id = r.customer
  /\ \A oi \in r.items : oi.product \in DOMAIN products

\* The transaction commits: the Order, all its OrderItems and the deletion of
\* the cart (with its items, by cascade) become visible together
PlaceCommit(p) ==
  /\ place[p].pc = "deleted"
  /\ LET r == place[p]
     IN IF PlaceForeignKeysHold(r)
        THEN /\ orders' = orders \cup
                  {[id |-> r.order, customer |-> r.customer,
                    payment_status |-> PAYMENT_STATUS_PENDING]}
             /\ orderItems' = orderItems \cup r.items
             /\ carts' = carts \ {r.cart}
             /\ cartItems' = CascadeCart(r.cart)
             /\ place' = [place EXCEPT ![p] =
                  [IdlePlace EXCEPT !.pc = "done", !.res = "ok",
                                    !.cart = r.cart, !.order = r.order]]
        ELSE /\ place' = [place EXCEPT ![p] = RolledBack(@, "error")]
             /\ UNCHANGED <<orders, orderItems, carts, cartItems>>
  /\ cartLock' = Released(place[p].cart)
  /\ UNCHANGED <<collections, products, users, customers, seqs, adds, pdel,
                 cdel, resp>>

\* A failure inside the transaction, at any statement: everything it wrote
\* is rolled back
PlaceFail(p) ==
  /\ place[p].pc \in {"locked", "read", "header", "deleted"}
  /\ place' = [place EXCEPT ![p] = RolledBack(@, "failed")]
  /\ cartLock' = Released(place[p].cart)
  /\ UNCHANGED <<store, seqs, adds, pdel, cdel, resp>>

\* ---------------------------------------------------------- specifications
\* No request is in progress
ProcsInit ==
  /\ cartLock = [c \in CartIds |-> 0]
  /\ place = [p \in PlaceProcs |-> IdlePlace]
  /\ adds = [a \in AddProcs |-> IdleAdd]
  /\ pdel = [d \in DelProcs |-> IdleDel]
  /\ cdel = [d \in DelProcs |-> IdleDel]
  /\ resp = NoResp

\* Cart c holding the products 1..n, each on one line; the quantities differ
\* from line to line
CartRows(c, n) ==
  {[id |-> p, cart |-> c, product |-> p, quantity |-> (p % MaxQty) + 1]
   : p \in 1..n}

\* One collection holding every product at the lowest price
CatalogInit ==
  /\ collections = {1}
  /\ products = [p \in ProductIds |->
                   [collection |-> 1, unit_price |-> MinUnitPrice]]

\* Order placement: a shop with its catalog, one registered customer, and a
\* cart that a shopper has filled, or left empty
Init ==
  /\ ProcsInit
  /\ CatalogInit
  /\ users = [u \in {1} |-> [is_staff |-> FALSE]]
  /\ customers = {[id |-> 1, user |-> 1, membership |-> MEMBERSHIP_BRONZE]}
  /\ nextCustomerId = 2
  /\ orders = {}
  /\ orderItems = {}
  /\ nextOrderId = 1
  /\ carts = {1}
  /\ nextCartId = 2
  /\ \E n \in 0..MaxProducts :
       /\ cartItems = CartRows(1, n)
       /\ nextItemId = n + 1

Next ==
  \/ \E p \in ProductIds, c \in collections, v \in Prices :
       UpdateProduct(p, c, v)
  \/ \E p \in PlaceProcs, u \in UserIds, c \in CartIds : PlaceValidate(p, u, c)
  \/ \E p \in PlaceProcs : PlaceBegin(p)
  \/ \E p \in PlaceProcs : PlaceReadCart(p)
  \/ \E p \in PlaceProcs : PlaceCreateOrder(p)
  \/ \E p \in PlaceProcs : \E l \in place[p].lines : PlaceCreateItem(p, l)
  \/ \E p \in PlaceProcs : PlaceDeleteCart(p)
  \/ \E p \in PlaceProcs : PlaceCommit(p)
  \/ \E p \in PlaceProcs : PlaceFail(p)

Spec == Init /\ [][Next]_vars


\* ------------------------------------------------- claims: order placement
\* The placement p commits in this step
Commits(p) == place[p].res # "ok" /\ place'[p].res = "ok"

\* The lines read by a placement are the cart's lines at the product's price
SnapshotMatches(snap, c) ==
  /\ Cardinality(snap) = Cardinality(Lines(c))
  /\ \A ci \in Lines(c) :
       \E l \in snap : /\ l.product = ci.product
                       /\ l.quantity = ci.quantity
                       /\ l.unit_price = products[ci.product].unit_price

C1_Step ==
  /\ \A p \in PlaceProcs :
       (place[p].pc = "locked" /\ place'[p].pc = "read")
         => /\ Lines(place[p].cart) # {}
            /\ SnapshotMatches(place'[p].lines, place[p].cart)
  /\ \A p \in PlaceProcs :
       Commits(p) =>
         LET newOrders == orders' \ orders
             newItems == orderItems' \ orderItems
         IN /\ Cardinality(newOrders) = 1
            /\ \A o \in newOrders : o.id = place[p].order
            /\ Cardinality(newItems) = Cardinality(place[p].lines)
            /\ Cardinality(newItems) = Cardinality(Lines(place[p].cart))
            /\ Cardinality(newItems) >= 1
            /\ \A ci \in Lines(place[p].cart) :
                 \E oi \in newItems : /\ oi.product = ci.product
                                      /\ oi.quantity = ci.quantity
            /\ \A l \in place[p].lines :
                 \E oi \in newItems : /\ oi.order = place[p].order
                                      /\ oi.product = l.product
                                      /\ oi.quantity = l.quantity
                                      /\ oi.unit_price = l.unit_price
  /\ \A oi \in orderItems : oi \in orderItems'

\* C1: a successful placement of a cart of N >= 1 lines creates one Order
\* with N OrderItems, one per cart line, with the line's product and quantity
\* and the product's unit price at the moment the placement read the cart;
\* no later step (a product price update included) changes a stored
\* OrderItem.
C1_PriceSnapshot == [][C1_Step]_vars

\* An order of two items, one of them for a product repriced since
C1_Witness ==
  \E p \in PlaceProcs :
    /\ place[p].res = "ok"
    /\ Cardinality({oi \in orderItems : oi.order = place[p].order}) = 2
    /\ \E oi \in orderItems :
         /\ oi.order = place[p].order
         /\ oi.unit_price # products[oi.product].unit_price

C2_Step ==
  /\ \A p \in PlaceProcs :
       Commits(p) => /\ place[p].cart \notin carts'
                     /\ \A ci \in cartItems' : ci.cart # place[p].cart
  /\ ((place' # place) /\ (\A p \in PlaceProcs : ~ Commits(p)))
       => (store' = store)
  /\ \A p \in PlaceProcs :
       (place[p].res # "ok" /\ place[p].order # 0)
         => /\ \A o \in orders : o.id # place[p].order
            /\ \A oi \in orderItems : oi.order # place[p].order

\* C2: a placement that commits leaves neither the cart nor any of its
\* items; every other step of a placement, a failure at any statement of the
\* transaction included, leaves the store as it was, and no Order or
\* OrderItem of a placement that has not committed is in the store.
C2_AllOrNothing == [][C2_Step]_vars

\* A placement failed after creating its header and one of two OrderItems,
\* and the cart still has both lines
C2_Witness ==
  \E p \in PlaceProcs :
    /\ place[p].res = "failed"
    /\ place[p].order # 0
    /\ place[p].made = 1
    /\ place[p].cart \in carts
    /\ Cardinality(Lines(place[p].cart)) = 2

RequestsFor(c) == {p \in PlaceProcs : place[p].pc # "idle" /\ place[p].cart = c}
Succeeded(c) == {p \in RequestsFor(c) : place[p].res = "ok"}

\* C3: of the concurrent placements for one cart at most one succeeds, under
\* every interleaving; and when all of them have ended without a fault and
\* one of them passed validation, exactly one succeeded and every other one
\* ended refused at validation, or NotFound, or Empty.
C3_OneWinner ==
  \A c \in CartIds :
    /\ Cardinality(Succeeded(c)) <= 1
    /\ ( /\ \A p \in RequestsFor(c) :
              /\ place[p].pc = "done"
              /\ place[p].res \in {"ok", "invalid", "NotFound", "Empty"}
         /\ \E p \in RequestsFor(c) : place[p].res # "invalid" )
       => Cardinality(Succeeded(c)) = 1

\* Two requests passed validation for the same cart; one placed the order and
\* the other found the cart gone
C3_Witness ==
  \E p, q \in PlaceProcs :
    /\ place[p].cart = place[q].cart
    /\ place[p].res = "ok"
    /\ place[q].res = "NotFound"

C9_Step ==
  /\ \A p \in PlaceProcs :
       (place[p].pc = "idle" /\ place'[p].pc # "idle"
          /\ ~ CartIdValid(place'[p].cart))
         => /\ place'[p].pc = "done"
            /\ place'[p].res = "invalid"
            /\ store' = store
  /\ \A p \in PlaceProcs :
       place[p].res \in {"invalid", "NotFound", "Empty"}
         => /\ place'[p] = place[p]
            /\ \A o \in orders : o.id # place[p].order
            /\ place[p].res = "invalid" => place[p].order = 0

\* C9: a placement for a cart id with no Cart, or with a Cart without items,
\* ends at validation with an error, changes nothing in the store (the empty
\* cart stays), creates no Order, and does nothing afterwards.
C9_InvalidCart == [][C9_Step]_vars

\* One request was refused for a cart that did not exist, another for the
\* cart that exists and is empty
C9_Witness ==
  \E p, q \in PlaceProcs :
    /\ place[p].res = "invalid" /\ place[p].at = "missing"
    /\ place[q].res = "invalid" /\ place[q].at = "empty"
    /\ place[q].cart \in carts
    /\ Lines(place[q].cart) = {}
    /\ orders = {}


\* ------------------------------------------------------------ cart handlers
\* A cart service: the catalog and one cart, still empty, with shoppers
\* adding, changing and removing lines
InitCart ==
  /\ ProcsInit
  /\ CatalogInit
  /\ users = <<>>
  /\ customers = {}
  /\ nextCustomerId = 1
  /\ orders = {}
  /\ orderItems = {}
  /\ nextOrderId = 1
  /\ carts = {1}
  /\ nextCartId = 2
  /\ cartItems = {}
  /\ nextItemId = 1

NextCart ==
  \/ \E a \in AddProcs, c \in CartIds, p \in ProductIds, q \in 0..MaxQty :
       AddLookup(a, c, p, q)
  \/ \E a \in AddProcs : AddWrite(a)
  \/ \E i \in 1..MaxItemIds, q \in (0 - 1)..MaxQty : UpdateCartItem(i, q)
  \/ \E i \in 1..MaxItemIds : DeleteCartItem(i)
  \/ \E c \in CartIds : DeleteCart(c)

SpecCart == InitCart /\ [][NextCart]_vars

\* The lines of cart c for product p
LinesFor(items, c, p) == {ci \in items : ci.cart = c /\ ci.product = p}

C4_Step ==
  /\ \A a \in AddProcs :
       (adds[a].pc = "found" /\ adds'[a].res \in {"inserted", "merged"})
         => LET r == adds[a]
                after == LinesFor(cartItems', r.cart, r.product)
            IN /\ Cardinality(after) = 1
               /\ \A ci \in after :
                    ci.quantity = IF r.found # 0 THEN r.q0 + r.quantity
                                  ELSE r.quantity
               /\ r.found = 0 => LinesFor(cartItems, r.cart, r.product) = {}
               /\ \A ci \in cartItems :
                    (ci.cart # r.cart \/ ci.product # r.product)
                      => ci \in cartItems'
  /\ \A c \in CartIds, p \in ProductIds :
       Cardinality(LinesFor(cartItems, c, p)) <= 1

\* C4: an add that found a line of quantity q0 for (cart, product) leaves
\* exactly one line for the pair, of quantity q0 + q; an add that found none
\* leaves exactly one line, of quantity q; the other lines are untouched; and
\* in every state, concurrent adds included, a (cart, product) pair has at
\* most one line.
C4_AddMerges == [][C4_Step]_vars

\* One request inserted the line, a later one found it and added to it
C4_Witness ==
  \E a, b \in AddProcs :
    /\ adds[a].res = "inserted"
    /\ adds[b].res = "merged"
    /\ Cardinality(cartItems) = 1
    /\ \E ci \in cartItems : ci.quantity = MaxQty

C8_Step ==
  /\ (resp' # resp /\ resp' = Resp("patch_item", 400))
       => cartItems' = cartItems
  /\ \A ci \in cartItems : ci.quantity >= 1

\* C8: a quantity update refused with a validation error leaves every
\* CartItem as it was (none is deleted), and every CartItem in every state
\* has quantity >= 1: an update to 0 or less is never applied.
C8_QuantityAtLeastOne == [][C8_Step]_vars

\* An update was refused while the cart has a line
C8_Witness ==
  /\ resp = Resp("patch_item", 400)
  /\ cartItems # {}


\* ----------------------------------------------------------------- catalog
\* The shop of Init with a second, empty collection; staff delete products
\* and collections and move products while an order is placed
InitCatalog ==
  /\ ProcsInit
  /\ collections = CollectionIds
  /\ products = [p \in ProductIds |->
                   [collection |-> 1, unit_price |-> MinUnitPrice]]
  /\ users = [u \in {1} |-> [is_staff |-> FALSE]]
  /\ customers = {[id |-> 1, user |-> 1, membership |-> MEMBERSHIP_BRONZE]}
  /\ nextCustomerId = 2
  /\ orders = {}
  /\ orderItems = {}
  /\ nextOrderId = 1
  /\ carts = {1}
  /\ nextCartId = 2
  /\ cartItems = CartRows(1, 1)
  /\ nextItemId = 2

NextCatalog ==
  \/ \E p \in ProductIds, c \in CollectionIds, v \in {0, MinUnitPrice} :
       UpdateProduct(p, c, v)
  \/ \E d \in DelProcs, p \in ProductIds : ProductDestroyCheck(d, p)
  \/ \E d \in DelProcs : ProductDestroyDelete(d)
  \/ \E d \in DelProcs, c \in CollectionIds : CollectionDestroyCheck(d, c)
  \/ \E d \in DelProcs : CollectionDestroyDelete(d)
  \/ \E p \in PlaceProcs, u \in UserIds : PlaceValidate(p, u, 1)
  \/ \E p \in PlaceProcs : PlaceBegin(p)
  \/ \E p \in PlaceProcs : PlaceReadCart(p)
  \/ \E p \in PlaceProcs : PlaceCreateOrder(p)
  \/ \E p \in PlaceProcs : \E l \in place[p].lines : PlaceCreateItem(p, l)
  \/ \E p \in PlaceProcs : PlaceDeleteCart(p)
  \/ \E p \in PlaceProcs : PlaceCommit(p)

SpecCatalog == InitCatalog /\ [][NextCatalog]_vars

\* The catalog alone: staff move and delete products and delete collections
NextCollection ==
  \/ \E p \in ProductIds, c \in CollectionIds, v \in {0, MinUnitPrice} :
       UpdateProduct(p, c, v)
  \/ \E d \in DelProcs, p \in ProductIds : ProductDestroyCheck(d, p)
  \/ \E d \in DelProcs : ProductDestroyDelete(d)
  \/ \E d \in DelProcs, c \in CollectionIds : CollectionDestroyCheck(d, c)
  \/ \E d \in DelProcs : CollectionDestroyDelete(d)

SpecCollection == InitCatalog /\ [][NextCollection]_vars

C5_Step ==
  \A d \in DelProcs :
    /\ (pdel[d].pc = "idle" /\ pdel'[d].pc = "checked")
         => ~ \E oi \in orderItems : oi.product = pdel'[d].id
    /\ (pdel[d].pc = "idle" /\ pdel'[d].pc = "done")
         => pdel'[d].res = "405" /\ store' = store
    /\ (pdel[d].pc = "checked" /\ pdel'[d].pc = "done"
          /\ \E oi \in orderItems : oi.product = pdel[d].id)
         => pdel'[d].res = "405" /\ store' = store

\* C5: a product delete request that meets an OrderItem of the product, at
\* its check or (an order having been placed in between) at its delete, ends
\* with 405 and leaves the store as it was.
C5_ProtectedProduct405 == [][C5_Step]_vars

C6_Step ==
  \A d \in DelProcs :
    /\ (cdel[d].pc = "idle" /\ cdel'[d].pc # "idle"
          /\ \E p \in DOMAIN products : products[p].collection = cdel'[d].id)
         => cdel'[d].pc = "done" /\ cdel'[d].res = "405" /\ store' = store
    /\ (cdel[d].pc = "idle" /\ cdel'[d].res = "405")
         => store' = store
    /\ (cdel[d].pc = "checked" /\ cdel'[d].pc = "done"
          /\ \E p \in DOMAIN products : products[p].collection = cdel[d].id)
         => cdel'[d].res # "204" /\ store' = store

InitCustomer ==
  /\ ProcsInit
  /\ CatalogInit
  /\ users = <<>>
  /\ customers = {}
  /\ nextCustomerId = 1
  /\ orders = {}
  /\ orderItems = {}
  /\ nextOrderId = 1
  /\ carts = {}
  /\ nextCartId = 1
  /\ cartItems = {}
  /\ nextItemId = 1

NextCustomer ==
  \/ \E u \in UserIds, staff \in BOOLEAN : SaveUser(u, staff)
  \/ \E u \in UserIds, method \in {"GET", "PUT"},
        m \in {MEMBERSHIP_BRONZE, MEMBERSHIP_SILVER, MEMBERSHIP_GOLD} :
       Me(u, method, m)
  \/ \E s \in UserIds, id \in 1..MaxUsers : DeleteCustomer(s, id)
  \/ CreateCart

SpecCustomer == InitCustomer /\ [][NextCustomer]_vars

C7_Step ==
  \A u \in UserIds :
    /\ (u \notin DOMAIN users /\ u \in DOMAIN users')
         => /\ Cardinality({cu \in customers' : cu.user = u}) = 1
            /\ \A cu \in customers' :
                 cu.user = u => cu.membership = "B" /\ cu \notin customers
            /\ \A cu \in customers : cu \in customers'
            /\ Cardinality(customers') = Cardinality(customers) + 1
    /\ (u \in DOMAIN users /\ users'[u] # users[u])
         => customers' = customers

\* C7: the step that creates an identity adds exactly one Customer, linked
\* to it, with membership 'B', and leaves every other Customer as it was;
\* a step that updates an identity leaves the Customer table as it was.
C7_CustomerProvisioning == [][C7_Step]_vars

\* Two identities each with their Customer; the first one's was upgraded
\* before the second identity came, and an identity has been updated
C7_Witness ==
  /\ DOMAIN users = {1, 2}
  /\ \A u \in {1, 2} : Cardinality(CustomersOf(u)) = 1
  /\ \E cu \in customers : cu.user = 1 /\ cu.membership = "G"
  /\ \E cu \in customers : cu.user = 2 /\ cu.membership = "B"
  /\ users[1].is_staff

\* C10: every identity has exactly one Customer.
C10_OneCustomerPerIdentity ==
  \A u \in DOMAIN users : Cardinality(CustomersOf(u)) = 1


\* ------------------------------------------------------------------ orders
\* A shop with two registered customers, the second of them staff, each with
\* a cart of one line; they place orders, and callers of every role list,
\* retrieve, patch and delete orders
InitOrders ==
  /\ ProcsInit
  /\ CatalogInit
  /\ users = [u \in {1, 2} |-> [is_staff |-> (u = 2)]]
  /\ customers = {[id |-> u, user |-> u, membership |-> MEMBERSHIP_BRONZE]
                  : u \in {1, 2}}
  /\ nextCustomerId = 3
  /\ orders = {}
  /\ orderItems = {}
  /\ nextOrderId = 1
  /\ carts = {1, 2}
  /\ nextCartId = 3
  /\ cartItems = {[id |-> c, cart |-> c, product |-> 1, quantity |-> c]
                  : c \in {1, 2}}
  /\ nextItemId = 3

\* The callers there are: the anonymous one and the identities
CallersNow == {u \in Callers : u = 0 \/ u \in DOMAIN users}
\* The Order ids a request may name: those issued so far
OrderIdsNow == {o \in 1..MaxOrders : o < nextOrderId}

NextOrders ==
  \/ \E p \in PlaceProcs, u \in CallersNow, c \in carts : PlaceValidate(p, u, c)
  \/ \E p \in PlaceProcs : PlaceBegin(p)
  \/ \E p \in PlaceProcs : PlaceReadCart(p)
  \/ \E p \in PlaceProcs : PlaceCreateOrder(p)
  \/ \E p \in PlaceProcs : \E l \in place[p].lines : PlaceCreateItem(p, l)
  \/ \E p \in PlaceProcs : PlaceDeleteCart(p)
  \/ \E p \in PlaceProcs : PlaceCommit(p)
  \/ \E u \in CallersNow : ListOrders(u)
  \/ \E u \in CallersNow, o \in OrderIdsNow : RetrieveOrder(u, o)
  \/ \E u \in CallersNow, o \in OrderIdsNow :
       PatchOrder(u, o, PAYMENT_STATUS_COMPLETE)
  \/ \E u \in CallersNow, o \in OrderIdsNow : DeleteOrder(u, o)

SpecOrders == InitOrders /\ [][NextOrders]_vars

OrderOps == {"list_orders", "retrieve_order", "patch_order", "delete_order"}

\* Is caller u let through for this operation on the Order resource
Authorized(op, u) ==
  IF op \in {"patch_order", "delete_order"} THEN IsAdminUser(u)
  ELSE IsAuthenticated(u)

C11_Step ==
  /\ (resp' # resp /\ resp'.op \in OrderOps)
       => /\ resp'.status = 403 <=> ~ Authorized(resp'.op, resp'.caller)
          /\ resp'.status = 403 => store' = store
  /\ \A p \in PlaceProcs :
       /\ (place[p].pc = "idle" /\ place'[p].res = "denied") => store' = store
       /\ place[p].res = "denied" => place'[p] = place[p]
       /\ (place[p].pc = "idle" /\ place'[p].pc # "idle")
            => (place'[p].res = "denied" <=> place'[p].user = 0)
       /\ Commits(p) => IsAuthenticated(place[p].user)
  /\ (\E x \in orders : x \notin orders')
       => \E u \in Callers, o \in 1..MaxOrders, s \in PaymentStatuses :
            /\ IsAdminUser(u)
            /\ PatchOrder(u, o, s) \/ DeleteOrder(u, o)

\* C11: a request on the Order resource is denied exactly when it is a PATCH
\* or DELETE by a caller who is not staff, or a list, retrieve or create by
\* an anonymous caller; a denied request leaves the store as it was; an
\* Order is placed only by an authenticated caller, and a stored Order
\* changes or goes only by a PATCH or DELETE of a staff caller.
C11_OrderPermissions == [][C11_Step]_vars

\* Staff has set an order's payment status, after which the order's own
\* customer, who is not staff, was denied its deletion; an anonymous caller
\* was denied a placement
C11_Witness ==
  /\ resp = Denied("delete_order", 1)
  /\ \E o \in orders : o.customer = 1 /\ o.payment_status = PAYMENT_STATUS_COMPLETE
  /\ \E p \in PlaceProcs : place[p].res = "denied"

\* The Orders of the Customer of identity u
OrdersOf(u) ==
  {o.id : o \in {x \in orders : \E cu \in customers :
                                   cu.user = u /\ cu.id = x.customer}}

C12_Step ==
  /\ (resp' # resp /\ resp'.status = 200 /\ resp'.op = "list_orders")
       => resp'.rows = IF users[resp'.caller].is_staff
                       THEN {o.id : o \in orders}
                       ELSE OrdersOf(resp'.caller)
  /\ (resp' # resp /\ resp'.status = 200 /\ resp'.op = "retrieve_order")
       => /\ Cardinality(resp'.rows) = 1
          /\ resp'.rows \subseteq {o.id : o \in orders}
          /\ users[resp'.caller].is_staff
               \/ resp'.rows \subseteq OrdersOf(resp'.caller)
  /\ (resp' # resp /\ resp'.status = 404 /\ resp'.op = "retrieve_order")
       => \A o \in orders :
            (users[resp'.caller].is_staff \/ o.id \in OrdersOf(resp'.caller))
              => ~ RetrieveOrder(resp'.caller, o.id)

\* C12: a listing shows a staff caller every Order and any other caller
\* exactly the Orders of the caller's own Customer; a retrieve shows one
\* Order, which for a caller who is not staff is one of the caller's own, and
\* it answers 404 only for an Order the caller may not see (or none at all).
C12_OrderVisibility == [][C12_Step]_vars

\* Two customers have each placed an order, and the first, who is not staff,
\* was shown exactly one Order, the own one
C12_Witness ==
  /\ resp.op = "list_orders" /\ resp.status = 200 /\ resp.caller = 1
  /\ ~ users[1].is_staff
  /\ Cardinality(resp.rows) = 1
  /\ \A o \in orders : o.id \in resp.rows <=> o.customer = 1
  /\ \E o \in orders : o.customer = 2


\* ------------------------------------------------------- the store as a whole
\* The shop of InitOrders with a second, empty collection: shoppers fill and
\* delete carts and place orders while staff delete products, collections,
\* customers and orders
InitStore ==
  /\ ProcsInit
  /\ collections = CollectionIds
  /\ products = [p \in ProductIds |->
                   [collection |-> 1, unit_price |-> MinUnitPrice]]
  /\ users = [u \in {1, 2} |-> [is_staff |-> (u = 2)]]
  /\ customers = {[id |-> u, user |-> u, membership |-> MEMBERSHIP_BRONZE]
                  : u \in {1, 2}}
  /\ nextCustomerId = 3
  /\ orders = {}
  /\ orderItems = {}
  /\ nextOrderId = 1
  /\ carts = {1, 2}
  /\ nextCartId = 3
  /\ cartItems = CartRows(1, 1)
  /\ nextItemId = 2

NextStore ==
  \/ \E c \in CartIds, p \in ProductIds : AddLookup(1, c, p, MinQuantity)
  \/ AddWrite(1)
  \/ \E c \in CartIds : DeleteCart(c)
  \/ \E c \in CollectionIds : UpdateProduct(1, c, MinUnitPrice)
  \/ \E p \in ProductIds : ProductDestroyCheck(1, p)
  \/ ProductDestroyDelete(1)
  \/ \E c \in CollectionIds : CollectionDestroyCheck(1, c)
  \/ CollectionDestroyDelete(1)
  \/ \E c \in carts : PlaceValidate(1, 1, c)
  \/ PlaceBegin(1)
  \/ PlaceReadCart(1)
  \/ PlaceCreateOrder(1)
  \/ \E l \in place[1].lines : PlaceCreateItem(1, l)
  \/ PlaceDeleteCart(1)
  \/ PlaceCommit(1)
  \/ \E cu \in customers : DeleteCustomer(2, cu.id)
  \/ \E o \in OrderIdsNow : DeleteOrder(2, o)

SpecStore == InitStore /\ [][NextStore]_vars

\* Order o has an OrderItem
HasItems(o) == \E oi \in orderItems : oi.order = o

C13_Step ==
  /\ \A oi \in orderItems : oi \in orderItems'
  /\ \A o \in orders : HasItems(o.id) => o \in orders'
  /\ (resp' # resp /\ resp'.op = "delete_order")
       => /\ store' = store
          /\ resp'.status # 204
  /\ \A u \in Callers, o \in 1..MaxOrders :
       (IsAdminUser(u) /\ HasItems(o) /\ DeleteOrder(u, o))
         => resp'.status = 500 /\ store' = store
  /\ \A c \in carts :
       (c \notin carts' /\ \A p \in PlaceProcs : ~ Commits(p))
         => /\ carts' = carts \ {c}
            /\ cartItems' = {ci \in cartItems : ci.cart # c}
            /\ <<collections, products, users, customers, orders, orderItems>>'
                 = <<collections, products, users, customers, orders, orderItems>>

C14_ReferentialIntegrity ==
  /\ \A ci \in cartItems : ci.cart \in carts /\ ci.product \in DOMAIN products
  /\ \A oi \in orderItems : /\ \E o \in orders : o.id = oi.order
                            /\ oi.product \in DOMAIN products
  /\ \A o \in orders : \E cu \in customers : cu.id = o.customer
  /\ \A p \in DOMAIN products : products[p].collection \in collections

\* A product that had a cart line was deleted, a collection was deleted, an
\* order is in the ledger, and an add that met a deletion was refused
C14_Witness ==
  /\ pdel[1].res = "204"
  /\ cdel[1].res = "204"
  /\ orders # {}
  /\ adds[1].res = "error"

====
